---- MODULE Spec2Model ----
(***************************************************************************)
(* Bracket matching of the pyzo code editor                                *)
(* (pyzo/codeeditor/extensions/appearance.py): the two parenthesis         *)
(* iterators, HighlightMatchingBracket._findMatchingBracket and            *)
(* HighlightMatchingBracket.paintEvent, as a state machine over a document *)
(* whose text, per-block token lists and options are drawn in Init.        *)
(* With them, on variables of their own: the eliding of the tab names in   *)
(* CompactTabBar (pyzo/core/compactTabWidget.py) and callLater with its    *)
(* _CallbackEventHandler (pyzo/core/main.py).                              *)
(*                                                                         *)
(* Python indexes from 0 and TLA+ from 1: the character Python calls       *)
(* fulltext[i] is fulltext[i + 1] here, and PyAt spells out Python's       *)
(* negative indexes.  A cursor position p lies between character p - 1 and *)
(* character p (Python indexes), as in QTextCursor.                        *)
(***************************************************************************)
EXTENDS Integers, Sequences, FiniteSets

\* ------------------------------------------------------------------ bounds

\* Longest document text of the general specifications.
MaxLen == 3

\* Longest document text of the balanced-document specification.
MaxBal == 6

\* The nesting depth of the long document: MaxDepth opening brackets and
\* their MaxDepth closing brackets, so that the partner of the first bracket
\* is the iterator's (2 * MaxDepth - 1)-th bracket, beyond the 500th.
MaxDepth == 251

\* The number of tabs of the tab bar.
MaxTabs == 2

\* The number of calls of callLater.
MaxCalls == 3

\* ------------------------------------------------------- program constants

BRACKS_OPEN == <<"(", "[", "{">>

BRACKS_CLOSE == <<")", "]", "}">>

BRACKS == BRACKS_OPEN \o BRACKS_CLOSE

InStr(c, s) == \E i \in 1..Len(s) : s[i] = c

\* dict(zip(_BRACKS_OPEN + _BRACKS_CLOSE, _BRACKS_CLOSE + _BRACKS_OPEN))
matchingBrackets(c) ==
    LET keys == BRACKS_OPEN \o BRACKS_CLOSE
        vals == BRACKS_CLOSE \o BRACKS_OPEN
        i == CHOOSE k \in 1..Len(keys) : keys[k] = c
    IN vals[i]

\* The default of _MatchResult's corresponding and offending; a position p
\* held by one of them is At(p), so that None is no position.
None == <<>>

At(p) == <<p>>

NoMatch == "NoMatch"

Match == "Match"

MisMatch == "MisMatch"

\* _MatchResult(status, corresponding=None, offending=None)
MatchResult(status, corresponding, offending) ==
    [status |-> status, corresponding |-> corresponding, offending |-> offending]

\* No _MatchResult was returned (the call is running, or it raised).
NoResult == MatchResult("none", None, None)

NewLine == "\n"

\* The characters the general specifications make documents of: two of the
\* three bracket families, a character that is no bracket, and the block
\* separator.
Alphabet == {"(", ")", "[", "]", "x", NewLine}

\* The characters of the balanced documents: all three families.
FullAlphabet == Alphabet \cup {"{", "}"}

\* compactTabWidget.py
MIN_NAME_WIDTH == 4

MAX_NAME_WIDTH == 64

\* chr(8230), one character that no name holds.
ELLIPSIS == "..."

\* -------------------------------------------------------------- variables

VARIABLES
    fulltext,       \* document().toPlainText(), a sequence of characters
    userData,       \* per block (from 1): [has, tokens], block.userData()
    parserOn,       \* self.parser() is not None and self.parser().name() != ""
    highlightMatchingBracket,     \* self.__highlightMatchingBracket
    highlightMisMatchingBracket,  \* self.__highlightMisMatchingBracket
    textCursor,     \* self.textCursor(): [position, anchor]
    pc,             \* "idle" | "scan" (in the for loop) | "returned"
    caller,         \* "none" | "call" | "paint": who called _findMatchingBracket
    qchar,          \* _findMatchingBracket's char
    qpos,           \* _findMatchingBracket's cursor.position()
    direction,      \* 1 | -1 (0 before the first call)
    our_iterator,   \* "none" | "_ParenIterator" | "_PlainTextParenIterator"
    it,             \* the iterator object's fields
    stacked_paren,  \* the stack: a sequence of <<paren, pos>>
    result,         \* the _MatchResult returned
    raised,         \* "none" | "_ParenNotFound" | "ValueError"
    yielded,        \* the <<paren, pos>> the iterator has returned so far
    stops,          \* how many times the iterator has raised StopIteration
    prev,           \* the outcome of an earlier call, kept by its caller
    painted,        \* the <<position, style element>> drawn by this paintEvent
    superPainted,   \* whether super().paintEvent(event) ran in this paintEvent
    escaped,        \* the exception that left paintEvent ("none" if none did)
    tabs,           \* CompactTabBar: per tab [name, text], TabData.name and
                    \* the text shown (QTabBar's own tabText)
    alignWidth,             \* CompactTabBar._alignWidth
    alignWidthIsReducing,   \* CompactTabBar._alignWidthIsReducing
    alignTimerActive,       \* CompactTabBar._alignTimer is running
    preventEqualTexts,      \* CompactTabBar._preventEqualTexts
    queue,          \* _CallbackEventHandler.queue: the callbacks put, oldest first
    postedEvents,   \* the User events posted to the handler and not yet delivered
    posting,        \* per thread: the callback it has put and not yet posted
                    \* the event for (0 when it is outside callLater)
    handling,       \* customEvent: [at, callback], at is "idle" | "loop" |
                    \* "callback" (inside callback(*args))
    invoked,        \* the callbacks invoked so far: [callback, raised]
    calls,          \* the number of callLater calls so far
    closeflag,      \* MainWindow._closeflag: "0" | "time" (time.time()) |
                    \* "False" | "True"
    mainPc,         \* "idle" | "closing" (closeEvent, after closeAll) |
                    \* "afterClose" (restart, after self.close()) |
                    \* "closed" | "replaced" (os.execv)
    inRestart,      \* restart() is running
    eventState,     \* the close event: "none" | "ignored" | "accepted"
    shutdown,       \* the steps the current or last closeEvent has run
    cleanable,      \* the loaded tools that have a cleanUp method
    closeEvents     \* the closeEvents so far: [ok, restart], the result of
                    \* closeAll() and whether restart() made the close

vars == <<fulltext, userData, parserOn, highlightMatchingBracket,
          highlightMisMatchingBracket, textCursor, pc, caller, qchar, qpos,
          direction, our_iterator, it, stacked_paren, result, raised,
          yielded, stops, prev, painted, superPainted, escaped, tabs,
          alignWidth, alignWidthIsReducing, alignTimerActive,
          preventEqualTexts, queue, postedEvents, posting, handling, invoked,
          calls, closeflag, mainPc, inRestart, eventState, shutdown,
          cleanable, closeEvents>>

docVars == <<fulltext, userData>>

optionVars == <<highlightMatchingBracket, highlightMisMatchingBracket>>

callVars == <<qchar, qpos, direction, our_iterator, it, stacked_paren,
              result, raised, yielded, stops>>

queryVars == <<callVars, prev>>

paintVars == <<painted, superPainted, escaped>>

\* The threads that call callLater: the main thread is 1.
Threads == {1, 2}

editorVars == <<docVars, parserOn, optionVars, textCursor, pc, caller,
                queryVars, paintVars>>

tabVars == <<tabs, alignWidth, alignWidthIsReducing, alignTimerActive,
             preventEqualTexts>>

callbackVars == <<queue, postedEvents, posting, handling, invoked, calls>>

windowVars == <<closeflag, mainPc, inRestart, eventState, shutdown, cleanable,
                closeEvents>>

\* ------------------------------------------------------------ the document

\* Python's s[i] for a sequence: negative indexes count from the end.
PyInRange(s, i) == -Len(s) <= i /\ i < Len(s)

PyAt(s, i) == IF i >= 0 THEN s[i + 1] ELSE s[Len(s) + i + 1]

\* The number of block separators among the first p characters of text.
CountNL(text, p) == Cardinality({i \in 1..p : text[i] = NewLine})

\* QTextDocument.blockCount(); blocks are numbered from 1 here.
BlockCount(text) == CountNL(text, Len(text)) + 1

\* QTextCursor.block() of a cursor at position p.
BlockOf(text, p) == CountNL(text, p) + 1

\* QTextBlock.position(): the position of the block's first character.
BlockPosition(text, b) ==
    IF b = 1 THEN 0
    ELSE CHOOSE p \in 1..Len(text) : text[p] = NewLine /\ CountNL(text, p) = b - 1

\* QTextBlock.length() without the separator.
BlockLength(text, b) ==
    IF b = BlockCount(text) THEN Len(text) - BlockPosition(text, b)
    ELSE BlockPosition(text, b + 1) - 1 - BlockPosition(text, b)

\* QTextBlock.text()
BlockText(text, b) ==
    SubSeq(text, BlockPosition(text, b) + 1,
           BlockPosition(text, b) + BlockLength(text, b))

\* QTextBlock.isValid()
BlockIsValid(text, b) == 1 <= b /\ b <= BlockCount(text)

\* QTextCursor.positionInBlock()
PositionInBlock(text, p) == p - BlockPosition(text, BlockOf(text, p))

\* QTextCursor.atBlockStart()
AtBlockStart(text, p) == PositionInBlock(text, p) = 0

\* QTextCursor.movePosition(Right) of a cursor without selection: one step,
\* into the next block after a block's end, and no move at the document's end.
MoveRight(text, p) == IF p < Len(text) THEN p + 1 ELSE p

\* A QTextCursor: there is a selection when the anchor is not the position.
Cursor(position, anchor) == [position |-> position, anchor |-> anchor]

\* QTextCursor.clearSelection(): the anchor is set to the position.
ClearSelection(c) == Cursor(c.position, c.position)

\* ------------------------------------------------------ _ParenIterator

\* A token of block.userData().tokens: isParen says isinstance(x,
\* ParenthesisToken), style is its _style, end the offset in the block at
\* which it ends.
Token(isParen, style, end) == [isParen |-> isParen, style |-> style, end |-> end]

\* The fields of an iterator object; one record serves both classes.
Iterator(cur_block, cur_tokens, cur_pos, position, dir) ==
    [cur_block |-> cur_block, cur_tokens |-> cur_tokens, cur_pos |-> cur_pos,
     position |-> position, direction |-> dir]

NoIterator == Iterator(0, <<>>, 0, 0, 0)

IsParenthesisToken(x) == x.isParen

\* _ParenIterator._getParenTokens: a block without user data has none.
GetParenTokens(b) ==
    IF userData[b].has
    THEN SelectSeq(userData[b].tokens, IsParenthesisToken)
    ELSE <<>>

\* A constructor that starts at the first token when it finds none ending
\* at the cursor, instead of raising.
ParenIteratorInitNoRaise(p, dir) ==
    LET cur_block == BlockOf(fulltext, p)
        cur_tokens == GetParenTokens(cur_block)
        hits == {k \in 0..(Len(cur_tokens) - 1) :
                    cur_tokens[k + 1].end = PositionInBlock(fulltext, p)}
    IN [ok |-> TRUE,
        it |-> Iterator(cur_block, cur_tokens,
                        IF hits = {} THEN 0
                        ELSE CHOOSE k \in hits : \A j \in hits : k <= j,
                        0, dir)]

\* _ParenIterator.__init__: [ok, it]; ok = FALSE is raise _ParenNotFound.
ParenIteratorInit(p, dir) ==
    LET cur_block == BlockOf(fulltext, p)
        cur_tokens == GetParenTokens(cur_block)
        hits == {k \in 0..(Len(cur_tokens) - 1) :
                    cur_tokens[k + 1].end = PositionInBlock(fulltext, p)}
    IN IF hits = {}
       THEN [ok |-> FALSE, it |-> Iterator(cur_block, cur_tokens, 0, 0, dir)]
       ELSE [ok |-> TRUE,
             it |-> Iterator(cur_block, cur_tokens,
                             CHOOSE k \in hits : \A j \in hits : k <= j, 0, dir)]

\* A while loop that ends the iteration at the first block without bracket
\* tokens instead of going on to the block after it.
RECURSIVE ParenAdvanceStopsAtEmptyLine(_)
ParenAdvanceStopsAtEmptyLine(i) ==
    IF i.cur_pos >= Len(i.cur_tokens) \/ i.cur_pos < 0
    THEN LET nb == IF i.direction = 1 THEN i.cur_block + 1 ELSE i.cur_block - 1
         IN IF ~BlockIsValid(fulltext, nb) \/ GetParenTokens(nb) = <<>>
            THEN [stop |-> TRUE, it |-> [i EXCEPT !.cur_block = nb],
                  paren |-> "", pos |-> 0]
            ELSE LET toks == GetParenTokens(nb)
                 IN ParenAdvanceStopsAtEmptyLine(
                        [i EXCEPT !.cur_block = nb,
                                  !.cur_tokens = toks,
                                  !.cur_pos = IF i.direction = 1 THEN 0
                                              ELSE Len(toks) - 1])
    ELSE [stop |-> FALSE, it |-> i,
          paren |-> i.cur_tokens[i.cur_pos + 1].style,
          pos |-> BlockPosition(fulltext, i.cur_block)
                    + i.cur_tokens[i.cur_pos + 1].end]

\* The while loop of _ParenIterator.__next__.
RECURSIVE ParenAdvance(_)
ParenAdvance(i) ==
    IF i.cur_pos >= Len(i.cur_tokens) \/ i.cur_pos < 0
    THEN LET nb == IF i.direction = 1 THEN i.cur_block + 1 ELSE i.cur_block - 1
         IN IF ~BlockIsValid(fulltext, nb)
            THEN [stop |-> TRUE, it |-> [i EXCEPT !.cur_block = nb],
                  paren |-> "", pos |-> 0]
            ELSE LET toks == GetParenTokens(nb)
                 IN ParenAdvance([i EXCEPT !.cur_block = nb,
                                           !.cur_tokens = toks,
                                           !.cur_pos = IF i.direction = 1 THEN 0
                                                       ELSE Len(toks) - 1])
    ELSE [stop |-> FALSE, it |-> i,
          paren |-> i.cur_tokens[i.cur_pos + 1].style,
          pos |-> BlockPosition(fulltext, i.cur_block)
                    + i.cur_tokens[i.cur_pos + 1].end]

\* _ParenIterator.__next__: [stop, it, paren, pos]; stop is StopIteration.
ParenIteratorNext(i) ==
    ParenAdvance([i EXCEPT !.cur_pos = i.cur_pos + i.direction])

\* ----------------------------------------------- _PlainTextParenIterator

\* _PlainTextParenIterator.__init__ (self.fulltext is the document's text,
\* which no step changes).
PlainIteratorInit(p, dir) == Iterator(0, <<>>, 0, p - 1, dir)

\* The try block of _PlainTextParenIterator.__next__: an index outside
\* -len..len-1 is IndexError, hence StopIteration.
RECURSIVE PlainAdvance(_)
PlainAdvance(i) ==
    IF ~PyInRange(fulltext, i.position)
    THEN [stop |-> TRUE, it |-> i, paren |-> "", pos |-> 0]
    ELSE IF InStr(PyAt(fulltext, i.position), BRACKS)
    THEN [stop |-> FALSE, it |-> i, paren |-> PyAt(fulltext, i.position),
          pos |-> i.position + 1]
    ELSE LET j == [i EXCEPT !.position = i.position + i.direction]
         IN IF j.position < 0
            THEN [stop |-> TRUE, it |-> j, paren |-> "", pos |-> 0]
            ELSE PlainAdvance(j)

\* _PlainTextParenIterator.__next__
PlainIteratorNext(i) ==
    PlainAdvance([i EXCEPT !.position = i.position + i.direction])

\* ------------------------------------------------- _findMatchingBracket

\* A test that takes every character that is no closing bracket for an
\* opening one.
DirectionElseForward(char) == IF InStr(char, BRACKS_CLOSE) THEN -1 ELSE 1

\* direction, or 0 for a char that is no bracket (ValueError).
Direction(char) ==
    IF InStr(char, BRACKS_CLOSE) THEN -1
    ELSE IF InStr(char, BRACKS_OPEN) THEN 1
    ELSE 0

\* A scan that stacks the opening brackets whatever its direction.
StackingForwardOnly(dir) == BRACKS_OPEN

Stacking(dir) == IF dir = -1 THEN BRACKS_CLOSE ELSE BRACKS_OPEN

\* A scan that resolves the stack with closing brackets whatever its
\* direction.
UnstackingForwardOnly(dir) == BRACKS_CLOSE

Unstacking(dir) == IF dir = -1 THEN BRACKS_OPEN ELSE BRACKS_CLOSE

\* A stack that outlives the call: the start is pushed on what is there.
InitialStackKept(stack, char, p) == Append(stack, <<char, p>>)

\* stacked_paren = [(char, cursor.position())]; stack is the value the
\* variable held before, which the assignment drops.
InitialStack(stack, char, p) == << <<char, p>> >>

\* our_iterator = _ParenIterator if self.parser() is not None and
\* self.parser().name() != "" else _PlainTextParenIterator
ChooseIterator(on) ==
    IF on THEN "_ParenIterator" ELSE "_PlainTextParenIterator"

\* A mismatch with the two positions the other way round.
MisMatchResultSwapped(pos, top) == MatchResult(MisMatch, At(top[2]), At(pos))

\* The result of a mismatch: _MatchResult(MisMatch, pos, stacked_paren[-1][1])
MisMatchResult(pos, top) == MatchResult(MisMatch, At(pos), At(top[2]))

\* A scan to which every unstacking bracket is a partner.
IsPartnerAny(top, paren) == TRUE

\* Whether the unstacking paren closes the bracket on top of the stack:
\* self._matchingBrackets[stacked_paren[-1][0]] == paren
IsPartner(top, paren) == matchingBrackets(top[1]) = paren

\* A scan that forgets the brackets it should stack.
PushNothing(stack, paren, pos) == stack

\* stacked_paren.append((paren, pos))
Push(stack, paren, pos) == Append(stack, <<paren, pos>>)

\* stacked_paren.pop()
Pop(stack) == SubSeq(stack, 1, Len(stack) - 1)

\* A NoMatch that carries the start position.
NoMatchResultWithStart == MatchResult(NoMatch, At(qpos), None)

\* return _MatchResult(_MatchStatus.NoMatch)
NoMatchResult == MatchResult(NoMatch, None, None)

\* A loop body that passes over a bracket of the wrong family and scans on.
LoopBodyPassesMisMatch(stack, dir, paren, pos) ==
    LET top == stack[Len(stack)]
        stack1 == IF InStr(paren, Stacking(dir)) THEN Push(stack, paren, pos)
                  ELSE IF InStr(paren, Unstacking(dir)) /\ IsPartner(top, paren)
                       THEN Pop(stack)
                       ELSE stack
    IN IF Len(stack1) = 0
       THEN [stack |-> stack1, returned |-> TRUE,
             result |-> MatchResult(Match, At(pos), None)]
       ELSE [stack |-> stack1, returned |-> FALSE, result |-> NoResult]

\* The body of the for loop for one (paren, pos) of the iterator:
\* [stack, returned, result].
LoopBody(stack, dir, paren, pos) ==
    LET top == stack[Len(stack)]
        mismatch == /\ ~InStr(paren, Stacking(dir))
                    /\ InStr(paren, Unstacking(dir))
                    /\ ~IsPartner(top, paren)
        stack1 == IF InStr(paren, Stacking(dir)) THEN Push(stack, paren, pos)
                  ELSE IF InStr(paren, Unstacking(dir)) /\ ~mismatch
                       THEN Pop(stack)
                       ELSE stack
    IN IF mismatch
       THEN [stack |-> stack, returned |-> TRUE, result |-> MisMatchResult(pos, top)]
       ELSE IF Len(stack1) = 0
       THEN [stack |-> stack1, returned |-> TRUE,
             result |-> MatchResult(Match, At(pos), None)]
       ELSE [stack |-> stack1, returned |-> FALSE, result |-> NoResult]

\* next(our_iterator(cursor, direction))
IteratorNext(cls, i) ==
    IF cls = "_ParenIterator" THEN ParenIteratorNext(i) ELSE PlainIteratorNext(i)

\* What the query that just returned leaves for the next one to be compared
\* with: its arguments, its strategy and its outcome.
Outcome ==
    [valid |-> TRUE, char |-> qchar, pos |-> qpos, iterator |-> our_iterator,
     result |-> result, raised |-> raised]

NoOutcome ==
    [valid |-> FALSE, char |-> "", pos |-> 0, iterator |-> "none",
     result |-> NoResult, raised |-> "none"]

\* _findMatchingBracket(char, cursor) up to the first next() of the for
\* loop: the direction, the stack, the iterator and its construction.
FindMatchingBracket(who, char, p) ==
    LET dir == Direction(char)
        cls == ChooseIterator(parserOn)
        init == ParenIteratorInit(p, dir)
    IN /\ caller' = who
       /\ qchar' = char
       /\ qpos' = p
       /\ direction' = dir
       /\ result' = NoResult
       /\ yielded' = <<>>
       /\ stops' = 0
       /\ IF dir = 0
          THEN /\ raised' = "ValueError"
               /\ pc' = "returned"
               /\ our_iterator' = "none"
               /\ it' = NoIterator
               /\ stacked_paren' = <<>>
          ELSE /\ stacked_paren' = InitialStack(stacked_paren, char, p)
               /\ our_iterator' = cls
               /\ IF cls = "_ParenIterator"
                  THEN IF init.ok
                       THEN /\ it' = init.it
                            /\ raised' = "none"
                            /\ pc' = "scan"
                       ELSE /\ it' = init.it
                            /\ raised' = "_ParenNotFound"
                            /\ pc' = "returned"
                  ELSE /\ it' = PlainIteratorInit(p, dir)
                       /\ raised' = "none"
                       /\ pc' = "scan"

\* A call of _findMatchingBracket on the character left of position p.
Call(p) ==
    /\ pc = "idle"
    /\ FindMatchingBracket("call", fulltext[p], p)
    /\ UNCHANGED <<tabVars, callbackVars, windowVars>>
    /\ UNCHANGED <<docVars, parserOn, optionVars, textCursor, paintVars, prev>>

\* One round of the for loop: next() and the loop body, or the end of the
\* loop and return _MatchResult(NoMatch).
ScanStep ==
    /\ pc = "scan"
    /\ LET n == IteratorNext(our_iterator, it)
           b == LoopBody(stacked_paren, direction, n.paren, n.pos)
       IN /\ it' = n.it
          /\ IF n.stop
             THEN /\ result' = NoMatchResult
                  /\ pc' = "returned"
                  /\ stops' = stops + 1
                  /\ UNCHANGED <<stacked_paren, yielded>>
             ELSE /\ yielded' = Append(yielded, <<n.paren, n.pos>>)
                  /\ stacked_paren' = b.stack
                  /\ UNCHANGED stops
                  /\ result' = b.result
                  /\ pc' = IF b.returned THEN "returned" ELSE "scan"
    /\ UNCHANGED <<tabVars, callbackVars, windowVars>>
    /\ UNCHANGED <<docVars, parserOn, optionVars, textCursor, paintVars,
                   caller, qchar, qpos, direction, our_iterator, raised, prev>>

\* The caller of Call has its result (or its exception), and keeps it to
\* compare later results with, or not.
Return(keep) ==
    /\ pc = "returned"
    /\ caller = "call"
    /\ pc' = "idle"
    /\ prev' = IF keep THEN Outcome ELSE prev
    /\ UNCHANGED <<tabVars, callbackVars, windowVars>>
    /\ UNCHANGED <<docVars, parserOn, optionVars, textCursor, paintVars,
                   caller, callVars>>

\* The editor's parser is set or removed between two queries.
SetParser ==
    /\ pc = "idle"
    /\ parserOn' = ~parserOn
    /\ UNCHANGED <<tabVars, callbackVars, windowVars>>
    /\ UNCHANGED <<docVars, optionVars, textCursor, paintVars, pc, caller,
                   queryVars>>

\* ----------------------------------------------------------- initial states

\* The texts of at most n characters.
Texts(n) == UNION {[1..k -> Alphabet] : k \in 0..n}

\* The positions (from 1) of the bracket characters of text.
BracketPositions(text) == {p \in 1..Len(text) : InStr(text[p], BRACKS)}

\* The token list the lexer stores for block b: one token per character,
\* a ParenthesisToken for each bracket at a position of classified, and a
\* token of another class (a string, a comment, an identifier) otherwise.
BlockTokens(text, classified, b) ==
    [k \in 1..BlockLength(text, b) |->
        LET p == BlockPosition(text, b) + k
        IN IF p \in classified /\ InStr(text[p], BRACKS)
           THEN Token(TRUE, text[p], k)
           ELSE Token(FALSE, "text", k)]

\* The user data of the blocks: has[b] says whether block b has any.
UserDataOf(text, classified, has) ==
    [b \in 1..BlockCount(text) |->
        IF has[b]
        THEN [has |-> TRUE, tokens |-> BlockTokens(text, classified, b)]
        ELSE [has |-> FALSE, tokens |-> <<>>]]

\* Every block has user data and every bracket is a ParenthesisToken: the
\* lexer saw no string and no comment.
FullyLexed(text) ==
    UserDataOf(text, BracketPositions(text), [b \in 1..BlockCount(text) |-> TRUE])

\* CompactTabBar.__init__: no tab yet.
InitTabBar(prevent) ==
    /\ tabs = <<>>
    /\ alignWidth = MIN_NAME_WIDTH
    /\ alignWidthIsReducing = FALSE
    /\ alignTimerActive = FALSE
    /\ preventEqualTexts = prevent

\* _CallbackEventHandler.__init__: an empty queue, no event posted, no
\* thread inside callLater.
InitCallLater ==
    /\ queue = <<>>
    /\ postedEvents = 0
    /\ posting = [t \in Threads |-> 0]
    /\ handling = [at |-> "idle", callback |-> 0]
    /\ invoked = <<>>
    /\ calls = 0

\* MainWindow.__init__: _closeflag = 0; the window is open, with the tools
\* of `tools` loaded that have a cleanUp method.
InitMainWindow(tools) ==
    /\ closeflag = "0"
    /\ mainPc = "idle"
    /\ inRestart = FALSE
    /\ eventState = "none"
    /\ shutdown = <<>>
    /\ cleanable = tools
    /\ closeEvents = <<>>

\* The editor after construction, before any query, for a given document.
InitOf(text, data, on) ==
    /\ fulltext = text
    /\ userData = data
    /\ parserOn = on
    /\ highlightMatchingBracket = TRUE
    /\ highlightMisMatchingBracket = TRUE
    /\ textCursor = Cursor(0, 0)
    /\ pc = "idle"
    /\ caller = "none"
    /\ qchar = ""
    /\ qpos = 0
    /\ direction = 0
    /\ our_iterator = "none"
    /\ it = NoIterator
    /\ stacked_paren = <<>>
    /\ result = NoResult
    /\ raised = "none"
    /\ yielded = <<>>
    /\ stops = 0
    /\ prev = NoOutcome
    /\ painted = {}
    /\ superPainted = FALSE
    /\ escaped = "none"

\* Any text of at most MaxLen characters, lexed in any way.
InitQuery ==
    \E text \in Texts(MaxLen) :
        \E classified \in SUBSET BracketPositions(text) :
            \E has \in [1..BlockCount(text) -> BOOLEAN] :
                \E on \in BOOLEAN :
                    /\ InitOf(text, UserDataOf(text, classified, has), on)
                    /\ InitTabBar(TRUE)
                    /\ InitCallLater
                    /\ InitMainWindow({})

NextQuery ==
    \/ \E p \in 1..Len(fulltext) : Call(p)
    \/ ScanStep
    \/ \E keep \in BOOLEAN : Return(keep)
    \/ SetParser

SpecQuery == InitQuery /\ [][NextQuery]_vars

\* -------------------------------------------------------------- paintEvent

\* The lines of paintEvent from the copy of the text cursor to the test
\* "char in self._BRACKS": [query, char, cursor], the character looked at and
\* the position of the cursor handed to _findMatchingBracket.
PaintTarget(text, c0) ==
    LET movedRight == AtBlockStart(text, c0)
        c1 == IF movedRight THEN MoveRight(text, c0) ELSE c0
        line == BlockText(text, BlockOf(text, c1))
        pos == PositionInBlock(text, c1) - 1
    IN IF Len(line) > pos /\ Len(line) > 0
       THEN LET left == PyAt(line, pos)
                right == /\ ~movedRight
                         /\ ~InStr(left, BRACKS)
                         /\ Len(line) > pos + 1
                char == IF right THEN PyAt(line, pos + 1) ELSE left
                c2 == IF right THEN MoveRight(text, c1) ELSE c1
            IN [query |-> InStr(char, BRACKS), char |-> char, cursor |-> c2]
       ELSE [query |-> FALSE, char |-> "", cursor |-> c1]

Unmatched == "editor.highlightUnmatchedBracket"

MatchedPair == "editor.highlightMatchingBracket"

MismatchedPair == "editor.highlightMisMatchingBracket"

\* A mismatch that always draws the start bracket as unmatched.
DrawsStartUnmatchedAlways(cursor, match_res, mis) == TRUE

\* Whether a mismatch draws the start bracket as unmatched.
DrawsStartUnmatched(cursor, match_res, mis) ==
    At(cursor) # match_res.offending \/ ~mis

\* The calls of _highlightSingleChar paintEvent makes for match_res, as the
\* set of <<cursor position, style element>>.
Highlights(match_res, cursor, mis) ==
    IF match_res.status = NoMatch
    THEN {<<cursor, Unmatched>>}
    ELSE IF match_res.status = Match
    THEN {<<cursor, MatchedPair>>, <<match_res.corresponding[1], MatchedPair>>}
    ELSE (IF DrawsStartUnmatched(cursor, match_res, mis)
          THEN {<<cursor, Unmatched>>} ELSE {})
         \cup
         (IF mis
          THEN {<<match_res.corresponding[1], MismatchedPair>>,
                <<match_res.offending[1], MismatchedPair>>}
          ELSE {})

\* A try statement without its except clause.
CaughtNothing(exc) == FALSE

\* except _ParenNotFound: pass
Caught(exc) == exc = "_ParenNotFound"

\* A paintEvent that works on the editor's cursor itself: what it does to
\* its cursor is done to the editor's.
TextCursorShared(own, local) == local

\* cursor = QtGui.QTextCursor(self.textCursor()): paintEvent works on a copy,
\* and the editor's cursor is what it was whatever became of the copy.
TextCursorCopied(own, local) == own

\* A paintEvent that goes on to look for brackets when either option is set.
PaintsBracketsEither(matching, mis) == matching \/ mis

\* if not self.__highlightMatchingBracket: super().paintEvent(event); return
PaintsBrackets(matching, mis) == matching

\* paintEvent up to the call of _findMatchingBracket, or to its end when it
\* makes none.
PaintEvent ==
    /\ pc = "idle"
    /\ painted' = {}
    /\ escaped' = "none"
    /\ LET cursor == ClearSelection(textCursor)
           t == PaintTarget(fulltext, cursor.position)
           on == PaintsBrackets(highlightMatchingBracket,
                                highlightMisMatchingBracket)
       IN /\ textCursor' =
                TextCursorCopied(textCursor,
                                 IF on THEN Cursor(t.cursor, t.cursor)
                                 ELSE textCursor)
          /\ IF on /\ t.query
             THEN /\ FindMatchingBracket("paint", t.char, t.cursor)
                  /\ superPainted' = FALSE
             ELSE /\ superPainted' = TRUE
                  /\ UNCHANGED <<pc, caller, callVars>>
    /\ UNCHANGED <<tabVars, callbackVars, windowVars>>
    /\ UNCHANGED <<docVars, parserOn, optionVars, prev>>

\* paintEvent after _findMatchingBracket: the highlights, or the except
\* clause, and super().paintEvent(event).
PaintFinish ==
    /\ pc = "returned"
    /\ caller = "paint"
    /\ pc' = "idle"
    /\ IF raised # "none" /\ Caught(raised)
       THEN /\ superPainted' = TRUE
            /\ UNCHANGED <<painted, escaped>>
       ELSE IF raised # "none"
       THEN /\ escaped' = raised
            /\ UNCHANGED <<painted, superPainted>>
       ELSE /\ painted' = Highlights(result, qpos, highlightMisMatchingBracket)
            /\ superPainted' = TRUE
            /\ UNCHANGED escaped
    /\ UNCHANGED <<tabVars, callbackVars, windowVars>>
    /\ UNCHANGED <<docVars, parserOn, optionVars, textCursor, caller, queryVars>>

\* setHighlightMatchingBracket(value)
SetHighlightMatchingBracket(value) ==
    /\ pc = "idle"
    /\ highlightMatchingBracket' = value
    /\ UNCHANGED <<tabVars, callbackVars, windowVars>>
    /\ UNCHANGED <<docVars, parserOn, highlightMisMatchingBracket, textCursor,
                   pc, caller, queryVars, paintVars>>

\* setHighlightMisMatchingBracket(value)
SetHighlightMisMatchingBracket(value) ==
    /\ pc = "idle"
    /\ highlightMisMatchingBracket' = value
    /\ UNCHANGED <<tabVars, callbackVars, windowVars>>
    /\ UNCHANGED <<docVars, parserOn, highlightMatchingBracket, textCursor,
                   pc, caller, queryVars, paintVars>>

\* The user moves the insertion point.
SetTextCursor(p) ==
    /\ pc = "idle"
    /\ textCursor' = Cursor(p, p)
    /\ UNCHANGED <<tabVars, callbackVars, windowVars>>
    /\ UNCHANGED <<docVars, parserOn, optionVars, pc, caller, queryVars,
                   paintVars>>

\* Any text of at most MaxLen characters in an editor in its steady state:
\* either it has a parser and every block has its tokens, any of the brackets
\* lexed as part of a string or comment, or it has none and no block has
\* user data.
Init ==
    \E text \in Texts(MaxLen) :
        /\ \/ \E classified \in SUBSET BracketPositions(text) :
                  InitOf(text,
                         UserDataOf(text, classified,
                                    [b \in 1..BlockCount(text) |-> TRUE]),
                         TRUE)
           \/ InitOf(text,
                     UserDataOf(text, {}, [b \in 1..BlockCount(text) |-> FALSE]),
                     FALSE)
        /\ InitTabBar(TRUE)
        /\ InitCallLater
        /\ InitMainWindow({})

Next ==
    \/ \E p \in 0..Len(fulltext) : SetTextCursor(p)
    \/ \E value \in BOOLEAN : SetHighlightMatchingBracket(value)
    \/ \E value \in BOOLEAN : SetHighlightMisMatchingBracket(value)
    \/ PaintEvent
    \/ ScanStep
    \/ PaintFinish

Spec == Init /\ [][Next]_vars

\* ------------------------------------------------------ balanced documents

\* Whether the brackets of text pair up: a parse with a stack of the open
\* brackets, independent of the direction-dependent scan of the editor.
RECURSIVE BalancedFrom(_, _, _)
BalancedFrom(text, k, open) ==
    IF k > Len(text) THEN open = <<>>
    ELSE IF InStr(text[k], BRACKS_OPEN)
    THEN BalancedFrom(text, k + 1, Append(open, text[k]))
    ELSE IF InStr(text[k], BRACKS_CLOSE)
    THEN /\ open # <<>>
         /\ matchingBrackets(open[Len(open)]) = text[k]
         /\ BalancedFrom(text, k + 1, SubSeq(open, 1, Len(open) - 1))
    ELSE BalancedFrom(text, k + 1, open)

IsBalanced(text) == BalancedFrom(text, 1, <<>>)

\* The balanced texts of exactly n characters of FullAlphabet: empty, or a
\* character that is no bracket and a balanced text, or a bracket, a balanced
\* text, its partner and a balanced text.
RECURSIVE BalancedTexts(_)
BalancedTexts(n) ==
    IF n = 0 THEN {<<>>}
    ELSE {<<c>> \o t : c \in {"x", NewLine}, t \in BalancedTexts(n - 1)}
         \cup
         UNION {
            UNION {
                {<<BRACKS_OPEN[f]>> \o a \o <<BRACKS_CLOSE[f]>> \o b :
                    a \in BalancedTexts(k), b \in BalancedTexts(n - 2 - k)}
                : k \in 0..(n - 2)}
            : f \in 1..3}

\* A balanced document of at most MaxBal characters without strings and
\* comments, with or without a parser.
InitBalanced ==
    \E n \in 0..MaxBal :
        \E text \in BalancedTexts(n) :
            \E on \in BOOLEAN :
                /\ InitOf(text, FullyLexed(text), on)
                /\ InitTabBar(TRUE)
                /\ InitCallLater
                /\ InitMainWindow({})

\* The parser of a balanced document stays as it was at construction.
NextBalanced ==
    \/ \E p \in 1..Len(fulltext) : Call(p)
    \/ ScanStep
    \/ Return(FALSE)

SpecBalanced == InitBalanced /\ [][NextBalanced]_vars

\* --------------------------------------------------------- a long document

\* MaxDepth times "(" and then MaxDepth times ")", on one line.
LongText == [i \in 1..(2 * MaxDepth) |-> IF i <= MaxDepth THEN "(" ELSE ")"]

\* The long document without strings and comments, with or without a parser.
InitLong ==
    \E on \in BOOLEAN :
        /\ InitOf(LongText, FullyLexed(LongText), on)
        /\ InitTabBar(TRUE)
        /\ InitCallLater
        /\ InitMainWindow({})

\* The queries of the outermost pair of the long document.
NextLong ==
    \/ \E p \in {1, Len(fulltext)} : Call(p)
    \/ ScanStep
    \/ Return(FALSE)

SpecLong == InitLong /\ [][NextLong]_vars

\* ------------------------------------------------ CompactTabBar (tab names)

\* Python's s[:k]
PyHead(s, k) ==
    IF k >= 0 THEN SubSeq(s, 1, IF k < Len(s) THEN k ELSE Len(s))
    ELSE SubSeq(s, 1, IF Len(s) + k > 0 THEN Len(s) + k ELSE 0)

\* name.split("/")[-1]
LastComponent(name) ==
    LET slashes == {i \in 1..Len(name) : name[i] = "/"}
    IN IF slashes = {} THEN name
       ELSE SubSeq(name, (CHOOSE i \in slashes : \A j \in slashes : j <= i) + 1,
                   Len(name))

\* [n for n in allNames if n[:w2] == shortName], counted
SimilarNames(allNames, shortName, w2) ==
    Cardinality({i \in 1..Len(allNames) : PyHead(allNames[i], w2) = shortName})

\* The while loop of _setMaxWidthOfAllItems, entered with hasSimilarNames
\* True and the given w (diff is 2): the w it ends with.
RECURSIVE GrowWidth(_, _, _)
GrowWidth(allNames, name, w) ==
    IF w < Len(name)
    THEN LET w1 == w + 1
             w2 == w1 - (2 - 1)
         IN IF SimilarNames(allNames, PyHead(name, w2), w2) > 1
            THEN GrowWidth(allNames, name, w1)
            ELSE w1
    ELSE w

\* The body of the for loop of _setMaxWidthOfAllItems for the tab named
\* fullName: [text, reduced], the text set and whether it was elided.
ItemText(allNames, fullName, w0, prevent) ==
    LET name == IF w0 + 1 < Len(fullName) /\ InStr("/", fullName)
                THEN LastComponent(fullName)
                ELSE fullName
        w == IF w0 + 1 < Len(name) /\ prevent
             THEN GrowWidth(allNames, name, w0 - 1)
             ELSE w0
    IN IF w + 1 < Len(name)
       THEN [text |-> PyHead(name, w) \o <<ELLIPSIS>>, reduced |-> TRUE]
       ELSE [text |-> name, reduced |-> FALSE]

\* self._getAllNames()
GetAllNames(ts) == [i \in 1..Len(ts) |-> ts[i].name]

\* _setMaxWidthOfAllItems: [tabs, itemReduced]
SetMaxWidthOfAllItems(ts, w0, prevent) ==
    [tabs |-> [i \in 1..Len(ts) |->
                  [name |-> ts[i].name,
                   text |-> ItemText(GetAllNames(ts), ts[i].name, w0, prevent).text]],
     itemReduced |-> \E i \in 1..Len(ts) :
                        ItemText(GetAllNames(ts), ts[i].name, w0, prevent).reduced]

\* alignTabs() on the tabs ts
AlignTabs(ts) ==
    /\ tabs' = SetMaxWidthOfAllItems(ts, alignWidth, preventEqualTexts).tabs
    /\ alignWidthIsReducing' = FALSE
    /\ alignTimerActive' = TRUE
    /\ UNCHANGED <<alignWidth, preventEqualTexts>>

\* insertTab(i, name) and the tabInserted(i) it calls
TabInserted(i, name) ==
    /\ Len(tabs) < MaxTabs
    /\ AlignTabs(SubSeq(tabs, 1, i - 1) \o <<[name |-> name, text |-> name]>>
                 \o SubSeq(tabs, i, Len(tabs)))
    /\ UNCHANGED <<editorVars, callbackVars, windowVars>>

\* removeTab(i) and the tabRemoved(i) it calls
TabRemoved(i) ==
    /\ AlignTabs(SubSeq(tabs, 1, i - 1) \o SubSeq(tabs, i + 1, Len(tabs)))
    /\ UNCHANGED <<editorVars, callbackVars, windowVars>>

\* setTabText(i, text)
SetTabText(i, text) ==
    /\ IF text # tabs[i].name
       THEN AlignTabs([tabs EXCEPT ![i].name = text])
       ELSE UNCHANGED tabVars
    /\ UNCHANGED <<editorVars, callbackVars, windowVars>>

\* resizeEvent(event)
ResizeEvent ==
    /\ AlignTabs(tabs)
    /\ UNCHANGED <<editorVars, callbackVars, windowVars>>

\* showEvent(event)
ShowEvent ==
    /\ AlignTabs(tabs)
    /\ UNCHANGED <<editorVars, callbackVars, windowVars>>

\* A test that lets the width grow in a pass that has reduced it.
MayGrowAfterReducing(margin, reducing) == margin = "large"

\* elif alignMargin > 10 and not self._alignWidthIsReducing:
MayGrow(margin, reducing) == margin = "large" /\ ~reducing

\* _alignRecursive, the slot of the single-shot timer.  The widget's
\* visibility and the pixel geometry that gives alignMargin are Qt's:
\* visible and margin ("negative": alignMargin < 0, "large": alignMargin >
\* 10, "good": neither) are inputs.
AlignRecursive(visible, margin) ==
    /\ alignTimerActive
    /\ IF ~visible
       THEN /\ alignTimerActive' = FALSE
            /\ UNCHANGED <<tabs, alignWidth, alignWidthIsReducing>>
       ELSE IF margin = "negative"
       THEN LET w == IF alignWidth - 1 > MIN_NAME_WIDTH THEN alignWidth - 1
                     ELSE MIN_NAME_WIDTH
            IN /\ alignWidth' = w
               /\ tabs' = SetMaxWidthOfAllItems(tabs, w, preventEqualTexts).tabs
               /\ alignWidthIsReducing' = TRUE
               /\ alignTimerActive' = (w > MIN_NAME_WIDTH)
       ELSE IF MayGrow(margin, alignWidthIsReducing)
       THEN LET w == IF alignWidth + 1 < MAX_NAME_WIDTH THEN alignWidth + 1
                     ELSE MAX_NAME_WIDTH
                r == SetMaxWidthOfAllItems(tabs, w, preventEqualTexts)
            IN /\ alignWidth' = w
               /\ tabs' = r.tabs
               /\ alignTimerActive' = (r.itemReduced /\ w < MAX_NAME_WIDTH)
               /\ UNCHANGED alignWidthIsReducing
       ELSE /\ alignTimerActive' = FALSE
            /\ UNCHANGED <<tabs, alignWidth, alignWidthIsReducing>>
    /\ UNCHANGED preventEqualTexts
    /\ UNCHANGED <<editorVars, callbackVars, windowVars>>

\* The names given to the tabs: file names with and without directories,
\* some with the same last component, some that begin the same.
TabNames ==
    { <<"a", "/", "m", "a", "i", "n">>,
      <<"b", "/", "m", "a", "i", "n">>,
      <<"a", "/", "e", "d", "i", "t", "o", "r">>,
      <<"b", "/", "e", "d", "i", "t", "o", "r">>,
      <<"e", "d", "i", "t", "o", "r", "1">>,
      <<"e", "d", "i", "t", "o", "r", "2">>,
      <<"e", "d", "i", "t", "o", "r", "s">>,
      <<"e", "d", "i", "t">>,
      <<"s", "h", "e", "l", "l">> }

\* A tab bar without tabs, with either setting of preventEqualTexts, next to
\* an editor with an empty document.
InitTabs ==
    /\ InitOf(<<>>, UserDataOf(<<>>, {}, [b \in 1..1 |-> FALSE]), FALSE)
    /\ \E prevent \in BOOLEAN : InitTabBar(prevent)
    /\ InitCallLater
    /\ InitMainWindow({})

NextTabs ==
    \/ \E i \in 1..(Len(tabs) + 1) : \E name \in TabNames : TabInserted(i, name)
    \/ \E i \in 1..Len(tabs) : TabRemoved(i)
    \/ \E i \in 1..Len(tabs) : \E text \in TabNames : SetTabText(i, text)
    \/ ResizeEvent
    \/ ShowEvent
    \/ \E visible \in BOOLEAN :
           \E margin \in {"negative", "large", "good"} :
               AlignRecursive(visible, margin)

SpecTabs == InitTabs /\ [][NextTabs]_vars

\* ------------------------------------------- callLater (pyzo/core/main.py)

\* The callbacks are numbered in the order of their queue.put: callback c is
\* the one the c-th put has queued.

\* queue.put(item)
QueuePut(q, item) == Append(q, item)

\* A queue that hands out the newest item.
QueueGetNowaitNewest(q) ==
    IF q = <<>> THEN [empty |-> TRUE, item |-> 0, rest |-> q]
    ELSE [empty |-> FALSE, item |-> q[Len(q)], rest |-> SubSeq(q, 1, Len(q) - 1)]

\* queue.get_nowait(): [empty, item, rest]; empty is the exception Empty.
QueueGetNowait(q) ==
    IF q = <<>> THEN [empty |-> TRUE, item |-> 0, rest |-> q]
    ELSE [empty |-> FALSE, item |-> Head(q), rest |-> Tail(q)]

\* The main thread (thread 1) is not inside customEvent's own statements:
\* it is between two events, or inside a callback.
MainThreadFree == handling.at # "loop"

\* callLater -> postEventWithCallback, first statement, on thread t:
\* self.queue.put((callback, args))
CallLaterPut(t) ==
    /\ calls < MaxCalls
    /\ posting[t] = 0
    /\ t = 1 => MainThreadFree
    /\ calls' = calls + 1
    /\ queue' = QueuePut(queue, calls + 1)
    /\ posting' = [posting EXCEPT ![t] = calls + 1]
    /\ UNCHANGED <<postedEvents, handling, invoked>>
    /\ UNCHANGED <<editorVars, tabVars, windowVars>>

\* postEventWithCallback, second statement, on thread t:
\* QtWidgets.qApp.postEvent(self, QtCore.QEvent(QtCore.QEvent.Type.User))
CallLaterPost(t) ==
    /\ posting[t] # 0
    /\ postedEvents' = postedEvents + 1
    /\ posting' = [posting EXCEPT ![t] = 0]
    /\ UNCHANGED <<queue, handling, invoked, calls>>
    /\ UNCHANGED <<editorVars, tabVars, windowVars>>

\* The event loop of the main thread delivers one posted event: customEvent
\* is entered.
CustomEvent ==
    /\ handling.at = "idle"
    /\ posting[1] = 0
    /\ postedEvents > 0
    /\ postedEvents' = postedEvents - 1
    /\ handling' = [at |-> "loop", callback |-> 0]
    /\ UNCHANGED <<queue, posting, invoked, calls>>
    /\ UNCHANGED <<editorVars, tabVars, windowVars>>

\* customEvent, the first try of the loop: get_nowait, and break on Empty.
GetNowait ==
    /\ handling.at = "loop"
    /\ LET r == QueueGetNowait(queue)
       IN IF r.empty
          THEN /\ handling' = [at |-> "idle", callback |-> 0]
               /\ UNCHANGED queue
          ELSE /\ handling' = [at |-> "callback", callback |-> r.item]
               /\ queue' = r.rest
    /\ UNCHANGED <<postedEvents, posting, invoked, calls>>
    /\ UNCHANGED <<editorVars, tabVars, windowVars>>

\* customEvent, the second try of the loop: callback(*args) returns, or
\* raises an Exception, which is printed; the loop goes on either way.
Callback(raises) ==
    /\ handling.at = "callback"
    /\ posting[1] = 0
    /\ invoked' = Append(invoked, [callback |-> handling.callback,
                                   raised |-> raises])
    /\ handling' = [at |-> "loop", callback |-> 0]
    /\ UNCHANGED <<queue, postedEvents, posting, calls>>
    /\ UNCHANGED <<editorVars, tabVars, windowVars>>

\* The handler after construction, next to an editor with an empty document
\* and a tab bar without tabs.
InitCallbacks ==
    /\ InitOf(<<>>, UserDataOf(<<>>, {}, [b \in 1..1 |-> FALSE]), FALSE)
    /\ InitTabBar(TRUE)
    /\ InitCallLater
    /\ InitMainWindow({})

NextCallLater ==
    \/ \E t \in Threads : CallLaterPut(t)
    \/ \E t \in Threads : CallLaterPost(t)
    \/ CustomEvent
    \/ GetNowait
    \/ \E raises \in BOOLEAN : Callback(raises)

\* Every thread goes on to its postEvent, the event loop of the main thread
\* delivers the posted events, and customEvent and the callbacks go on.
SpecCallLater ==
    /\ InitCallbacks
    /\ [][NextCallLater]_vars
    /\ \A t \in Threads : WF_vars(CallLaterPost(t))
    /\ WF_vars(CustomEvent)
    /\ WF_vars(GetNowait)
    /\ WF_vars(\E raises \in BOOLEAN : Callback(raises))

\* ------------------------------------------------------------------ claims

\* A call of _findMatchingBracket has returned to its caller.
CallReturned == pc = "returned" /\ caller = "call"

\* The lexer saw no string and no comment: every bracket is a token.
NoStringsOrComments == userData = FullyLexed(fulltext)

\* The position the iterator yielded last (after a next() that yielded).
LastYielded ==
    IF our_iterator = "_ParenIterator"
    THEN BlockPosition(fulltext, it.cur_block) + it.cur_tokens[it.cur_pos + 1].end
    ELSE it.position + 1

\* The position stored in the entry on top of the stack.
TopPosition == stacked_paren[Len(stacked_paren)][2]

\* The document is "(" + body + ")" with a body without unmatched brackets.
WellFormedDocument ==
    /\ Len(fulltext) >= 2
    /\ fulltext[1] = "("
    /\ fulltext[Len(fulltext)] = ")"
    /\ IsBalanced(SubSeq(fulltext, 2, Len(fulltext) - 1))

\* C1: in a document "(" + body + ")" whose body has no unmatched bracket,
\* the query on the opening bracket returns Match with the position of the
\* final closing bracket, and the query on the final closing bracket returns
\* Match with the position of the opening bracket, with either iterator.
C1_WellFormedMatch ==
    (CallReturned /\ WellFormedDocument) =>
        /\ qpos = 1 =>
              /\ raised = "none"
              /\ result = MatchResult(Match, At(Len(fulltext)), None)
        /\ qpos = Len(fulltext) =>
              /\ raised = "none"
              /\ result = MatchResult(Match, At(1), None)

\* C1's case: the closing bracket of a two-line document that nests another
\* family was queried through the token lists, back across the block boundary.
C1_Witness ==
    /\ CallReturned
    /\ fulltext = <<"(", "{", NewLine, "}", "x", ")">>
    /\ our_iterator = "_ParenIterator"
    /\ qpos = 6
    /\ result.status = Match

\* C2 as stated: in every MisMatch the offending position is that of the
\* bracket just met and the corresponding position that of the top of the
\* stack; for "(]" queried on "(" the offending position is that of "]".
C2_AsStated ==
    (CallReturned /\ result.status = MisMatch) =>
        /\ result.offending = At(LastYielded)
        /\ result.corresponding = At(TopPosition)
        /\ (fulltext = <<"(", "]">> /\ qpos = 1) => result.offending = At(2)

\* C2, amended: in every MisMatch the corresponding position is that of the
\* bracket just met, an unstacking bracket that is no partner of the bracket
\* on top of the stack, and the offending position is that of the top of the
\* stack; "(]" queried on "(" gives MisMatch with corresponding position 2
\* (the "]") and offending position 1 (the "(").
C2_MisMatchPositions ==
    /\ (CallReturned /\ result.status = MisMatch) =>
          /\ result.corresponding = At(LastYielded)
          /\ result.offending = At(TopPosition)
          /\ InStr(PyAt(fulltext, LastYielded - 1), Unstacking(direction))
          /\ InStr(PyAt(fulltext, TopPosition - 1), Stacking(direction))
          /\ matchingBrackets(PyAt(fulltext, TopPosition - 1))
                 # PyAt(fulltext, LastYielded - 1)
    /\ (/\ CallReturned
        /\ fulltext = <<"(", "]">>
        /\ qpos = 1
        /\ our_iterator = "_ParenIterator" => NoStringsOrComments) =>
          result = MatchResult(MisMatch, At(2), At(1))

\* C2's case: "(]" was queried on its "(".
C2_Witness ==
    /\ CallReturned
    /\ fulltext = <<"(", "]">>
    /\ qpos = 1
    /\ result = MatchResult(MisMatch, At(2), At(1))

\* C3: a round of the scan that meets an unstacking bracket that is not the
\* partner of the character on top of the stack returns at once, with MisMatch
\* whose corresponding position is that of the bracket met and whose offending
\* position is the one stored on top of the stack, and leaves the stack as it
\* was.
C3_MisMatchStep ==
    [][(/\ pc = "scan"
        /\ ~IteratorNext(our_iterator, it).stop
        /\ InStr(IteratorNext(our_iterator, it).paren, Unstacking(direction))
        /\ matchingBrackets(stacked_paren[Len(stacked_paren)][1])
               # IteratorNext(our_iterator, it).paren) =>
           /\ pc' = "returned"
           /\ result' = MatchResult(MisMatch,
                                    At(IteratorNext(our_iterator, it).pos),
                                    At(TopPosition))
           /\ stacked_paren' = stacked_paren
           /\ it' = IteratorNext(our_iterator, it).it]_vars

\* C3's case: a mismatch was met below a stack of two entries, which are
\* still there.
C3_Witness ==
    /\ pc = "returned"
    /\ result.status = MisMatch
    /\ Len(stacked_paren) = 2
    /\ result.offending = At(stacked_paren[2][2])
    /\ result.offending # At(qpos)

\* C4: NoMatch is returned exactly by the round that finds the iterator
\* exhausted, the stack then still holding an entry; NoMatch carries no
\* position; and "(" alone, queried on its bracket, gives NoMatch.
C4_NoMatchOnExhaustion ==
    [][/\ pc = "scan" =>
            /\ result'.status = NoMatch <=> IteratorNext(our_iterator, it).stop
            /\ result'.status = NoMatch =>
                  /\ pc' = "returned"
                  /\ stacked_paren' = stacked_paren
                  /\ stacked_paren # <<>>
                  /\ result'.corresponding = None
                  /\ result'.offending = None
       /\ pc # "scan" => result'.status # NoMatch \/ result' = result
       /\ (/\ fulltext = <<"(">>
           /\ pc' = "returned"
           /\ raised' = "none") => result' = MatchResult(NoMatch, None, None)]_vars

\* C4's case: "(" alone was queried and the result is NoMatch.
C4_Witness ==
    /\ CallReturned
    /\ fulltext = <<"(">>
    /\ qpos = 1
    /\ result.status = NoMatch

\* The pairs <<i, j>> of positions of an opening bracket and its structural
\* partner: the same family, and only balanced text between the two.
BracketPairs(text) ==
    {pr \in (1..Len(text)) \X (1..Len(text)) :
        /\ pr[1] < pr[2]
        /\ InStr(text[pr[1]], BRACKS_OPEN)
        /\ text[pr[2]] = matchingBrackets(text[pr[1]])
        /\ IsBalanced(SubSeq(text, pr[1] + 1, pr[2] - 1))}

\* C5: in a balanced document every bracket, inner or outer, opening or
\* closing, is matched with its structural partner, with either iterator.
C5_NestedPartner ==
    (CallReturned /\ IsBalanced(fulltext) /\ InStr(qchar, BRACKS)) =>
        /\ raised = "none"
        /\ result.status = Match
        /\ result.offending = None
        /\ \E q \in 1..Len(fulltext) :
              /\ result.corresponding = At(q)
              /\ IF InStr(qchar, BRACKS_OPEN)
                 THEN <<qpos, q>> \in BracketPairs(fulltext)
                 ELSE <<q, qpos>> \in BracketPairs(fulltext)

\* C5's case: the inner "{" of "([{}])" was queried and matched the "}"
\* next to it.
C5_Witness ==
    /\ CallReturned
    /\ fulltext = <<"(", "[", "{", "}", "]", ")">>
    /\ qpos = 3
    /\ result = MatchResult(Match, At(4), None)

\* The call that has returned asked what the kept call had asked.
SameQueryAsKept ==
    /\ CallReturned
    /\ prev.valid
    /\ prev.char = qchar
    /\ prev.pos = qpos

\* C6: the same query (same character, same position, same strategy) made
\* again against the document gives the outcome an earlier one gave, whatever
\* was queried in between: the same status and positions, or the same failure.
C6_Idempotent ==
    (SameQueryAsKept /\ prev.iterator = our_iterator) =>
        /\ prev.result = result
        /\ prev.raised = raised

\* C6's case: a query that had returned NoMatch with a stack of two entries
\* was made a second time, after a query of another bracket.
C6_Witness ==
    /\ SameQueryAsKept
    /\ prev.iterator = our_iterator
    /\ fulltext = <<"(", "(", ")">>
    /\ qpos = 1
    /\ result.status = NoMatch
    /\ prev.result.status = NoMatch

\* C7: in a document without strings and comments the query through the
\* token lists and the query through the plain text give the same outcome,
\* for every bracket.
C7_StrategiesAgree ==
    (/\ SameQueryAsKept
     /\ InStr(qchar, BRACKS)
     /\ NoStringsOrComments
     /\ prev.iterator # our_iterator) =>
        /\ prev.result = result
        /\ prev.raised = raised

\* The block of the start position has user data, and no ParenthesisToken of
\* it ends at the start position.
StartIsNoBracketToken ==
    LET b == BlockOf(fulltext, qpos)
    IN /\ userData[b].has
       /\ ~\E k \in 1..Len(userData[b].tokens) :
              /\ userData[b].tokens[k].isParen
              /\ userData[b].tokens[k].end = PositionInBlock(fulltext, qpos)

\* C8: with a parser, a start bracket whose block has tokens but no bracket
\* token ending at the start raises _ParenNotFound and returns no result;
\* without a parser the query of a bracket never raises and returns Match,
\* MisMatch or NoMatch, the start bracket being the first entry of the stack.
C8_ParenNotFound ==
    (CallReturned /\ InStr(qchar, BRACKS)) =>
        /\ (our_iterator = "_ParenIterator" /\ StartIsNoBracketToken) =>
              /\ raised = "_ParenNotFound"
              /\ result = NoResult
        /\ our_iterator = "_PlainTextParenIterator" =>
              /\ raised = "none"
              /\ result.status \in {Match, MisMatch, NoMatch}
              /\ result.status # Match => stacked_paren[1] = <<qchar, qpos>>

\* C8's case: a bracket lexed as part of a string raised _ParenNotFound with
\* the parser, and the same query without the parser found its partner.
C8_Witness ==
    /\ SameQueryAsKept
    /\ prev.iterator = "_ParenIterator"
    /\ prev.raised = "_ParenNotFound"
    /\ StartIsNoBracketToken
    /\ our_iterator = "_PlainTextParenIterator"
    /\ result.status = Match

\* The table of the emitted pairs, row by row.
HighlightTable(res, start, mis) ==
    CASE res.status = NoMatch -> {<<start, Unmatched>>}
      [] res.status = Match ->
            {<<start, MatchedPair>>, <<res.corresponding[1], MatchedPair>>}
      [] res.status = MisMatch /\ ~mis -> {<<start, Unmatched>>}
      [] res.status = MisMatch /\ mis /\ At(start) = res.offending ->
            {<<res.corresponding[1], MismatchedPair>>,
             <<res.offending[1], MismatchedPair>>}
      [] res.status = MisMatch /\ mis /\ At(start) # res.offending ->
            {<<start, Unmatched>>,
             <<res.corresponding[1], MismatchedPair>>,
             <<res.offending[1], MismatchedPair>>}

\* C9: the pairs a paintEvent draws for the result of its query at position
\* start are exactly those of the table, and no other step draws a pair: it
\* leaves the pairs as they are or, starting a paintEvent, without any.
C9_HighlightTable ==
    [][/\ (pc = "returned" /\ caller = "paint" /\ raised = "none") =>
              painted' = HighlightTable(result, qpos, highlightMisMatchingBracket)
       /\ pc # "returned" => painted' \in {painted, {}}]_vars

\* C9's case: a mismatch that is not at the start bracket was drawn with
\* mismatch highlighting on: the start as unmatched and the two others as
\* mismatched.
C9_Witness ==
    /\ pc = "idle"
    /\ caller = "paint"
    /\ result.status = MisMatch
    /\ result.offending # At(qpos)
    /\ painted = {<<qpos, Unmatched>>,
                  <<result.corresponding[1], MismatchedPair>>,
                  <<result.offending[1], MismatchedPair>>}
    /\ Cardinality(painted) = 3

\* C10: when the query of a paintEvent raises _ParenNotFound, the paintEvent
\* draws no highlight, lets no exception out and runs super().paintEvent.
C10_NotFoundSkipsHighlight ==
    [][(pc = "returned" /\ caller = "paint" /\ raised = "_ParenNotFound") =>
           /\ painted = {}
           /\ ~superPainted
           /\ painted' = {}
           /\ escaped' = "none"
           /\ superPainted'
           /\ pc' = "idle"]_vars

\* C10's case: a paintEvent whose query raised _ParenNotFound has ended.
C10_Witness ==
    /\ pc = "idle"
    /\ caller = "paint"
    /\ raised = "_ParenNotFound"
    /\ painted = {}
    /\ superPainted
    /\ escaped = "none"

\* C11: _findMatchingBracket called with a character that is none of the six
\* brackets raises ValueError before it constructs an iterator or takes a
\* round of the loop, and returns no result; a ValueError has no other cause.
C11_InvalidBracketCharacter ==
    /\ (pc \in {"scan", "returned"} /\ ~InStr(qchar, BRACKS)) =>
          /\ pc = "returned"
          /\ raised = "ValueError"
          /\ result = NoResult
          /\ our_iterator = "none"
          /\ it = NoIterator
          /\ yielded = <<>>
          /\ stops = 0
    /\ raised = "ValueError" => ~InStr(qchar, BRACKS)

\* C11's case: a call on the letter between two brackets raised ValueError.
C11_Witness ==
    /\ CallReturned
    /\ fulltext = <<"(", "x", ")">>
    /\ qchar = "x"
    /\ raised = "ValueError"
    /\ result = NoResult

\* The block of the start position has no user data: the lexer has stored no
\* token list for it.
StartBlockHasNoTokenData == ~userData[BlockOf(fulltext, qpos)].has

\* C12: with a parser, the query of a bracket whose block has no token data
\* goes through the plain text and returns Match, MisMatch or NoMatch; it
\* does not raise _ParenNotFound.
C12_FallbackWithoutTokenData ==
    (/\ CallReturned
     /\ InStr(qchar, BRACKS)
     /\ parserOn
     /\ StartBlockHasNoTokenData) =>
        /\ our_iterator = "_PlainTextParenIterator"
        /\ raised = "none"
        /\ result.status \in {Match, MisMatch, NoMatch}

\* C13: the loop of _findMatchingBracket takes at most 500 brackets from the
\* iterator, and a query whose partner lies beyond the 500th (the first
\* bracket of the long document) returns NoMatch.
C13_IterationCap ==
    /\ Len(yielded) <= 500
    /\ (CallReturned /\ fulltext = LongText /\ qpos = 1) =>
          result.status = NoMatch

\* The bracket at position q is a ParenthesisToken of its block's token list.
IsBracketToken(q) ==
    LET b == BlockOf(fulltext, q)
    IN /\ userData[b].has
       /\ \E k \in 1..Len(userData[b].tokens) :
              /\ userData[b].tokens[k].isParen
              /\ userData[b].tokens[k].end = PositionInBlock(fulltext, q)

\* The positions of the brackets an iterator of class cls started at p in
\* direction dir has to yield: strictly beyond p, and tokens for _ParenIterator.
PositionsBeyond(cls, p, dir) ==
    {q \in BracketPositions(fulltext) :
        /\ IF dir = 1 THEN q > p ELSE q < p
        /\ cls = "_ParenIterator" => IsBracketToken(q)}

\* These brackets, with their positions, in the order of the scan.
BracketsBeyond(cls, p, dir) ==
    LET S == PositionsBeyond(cls, p, dir)
        nth(k) == CHOOSE q \in S :
                     Cardinality({r \in S : IF dir = 1 THEN r < q ELSE r > q})
                         = k - 1
    IN [k \in 1..Cardinality(S) |-> <<fulltext[nth(k)], nth(k)>>]

IsPrefix(a, b) == Len(a) <= Len(b) /\ a = SubSeq(b, 1, Len(a))

\* C14: with either iterator and in either direction, what the iterator has
\* yielded is at any time the beginning of the sequence of the brackets
\* strictly beyond the start in the scan direction, nearest first, each with
\* its own character and position, and is the whole of it once the iterator
\* is exhausted; the start bracket and the brackets on its other side are
\* never yielded.
C14_IteratorSequence ==
    (pc \in {"scan", "returned"} /\ raised = "none") =>
        /\ IsPrefix(yielded, BracketsBeyond(our_iterator, qpos, direction))
        /\ stops > 0 =>
              yielded = BracketsBeyond(our_iterator, qpos, direction)
        /\ \A k \in 1..Len(yielded) :
              /\ yielded[k][2] # qpos
              /\ IF direction = 1 THEN yielded[k][2] > qpos
                 ELSE yielded[k][2] < qpos /\ yielded[k][2] >= 1

\* C15: a query takes a bounded number of brackets from its iterator, the
\* iterator that has raised StopIteration raises it again at the next
\* advance, and the query of a bracket ends with Match, MisMatch or NoMatch,
\* or with _ParenNotFound.
C15_ExhaustionIsFinal ==
    /\ Len(yielded) <= 2 * Len(fulltext)
    /\ stops <= 1
    /\ (pc = "returned" /\ stops > 0) => IteratorNext(our_iterator, it).stop
    /\ (CallReturned /\ InStr(qchar, BRACKS)) =>
          \/ raised = "none" /\ result.status \in {Match, MisMatch, NoMatch}
          \/ raised = "_ParenNotFound" /\ result = NoResult

\* C16: with preventEqualTexts, two tabs whose names differ are shown with
\* different texts, whatever the align width and the names.
C16_DistinctTexts ==
    preventEqualTexts =>
        \A i, j \in 1..Len(tabs) :
            tabs[i].name # tabs[j].name => tabs[i].text # tabs[j].text

\* The callbacks invoked so far are the callbacks 1, 2, ... in this order:
\* each one once, in the order of their queue.put.
InvokedInOrder == \A k \in 1..Len(invoked) : invoked[k].callback = k

\* C17: the callbacks are invoked in the order in which callLater queued
\* them, each one once, and only by customEvent on the main thread; every
\* callback queued is invoked in the end; after a callback that raised, the
\* loop of customEvent goes on with the callbacks queued behind it; and a
\* customEvent that finds the queue empty invokes nothing.
C17_CallLater ==
    /\ [](InvokedInOrder /\ Len(invoked) <= calls)
    /\ \A c \in 1..MaxCalls : (calls >= c) ~> (Len(invoked) >= c)
    /\ [][/\ invoked' # invoked =>
                /\ handling.at = "callback"
                /\ handling'.at = "loop"
                /\ posting[1] = 0
          /\ (handling.at = "loop" /\ queue # <<>> /\ handling' # handling) =>
                /\ handling' = [at |-> "callback", callback |-> Head(queue)]
                /\ queue' = Tail(queue)
          /\ (handling.at = "loop" /\ queue = <<>> /\ handling' # handling) =>
                /\ handling'.at = "idle"
                /\ invoked' = invoked]_vars

\* C17's case: three callbacks were queued, the first one raised, the two
\* behind it were invoked all the same, and the events are all delivered.
C17_Witness ==
    /\ Len(invoked) = MaxCalls
    /\ invoked[1].raised
    /\ ~invoked[2].raised
    /\ queue = <<>>
    /\ postedEvents = 0
    /\ handling.at = "idle"

\* C18: a call on a closing bracket scans Backward, pushes the closing
\* brackets it meets and resolves the stack with the opening ones; a call on
\* an opening bracket scans Forward, pushes the opening brackets and resolves
\* with the closing ones; and the stack of a call starts as the one entry
\* (start character, start position).
C18_DirectionAndStack ==
    [][/\ (pc = "idle" /\ pc' # "idle" /\ InStr(qchar', BRACKS)) =>
              /\ direction' = IF InStr(qchar', BRACKS_CLOSE) THEN -1 ELSE 1
              /\ stacked_paren' = << <<qchar', qpos'>> >>
       /\ (pc = "scan" /\ ~IteratorNext(our_iterator, it).stop) =>
              LET paren == IteratorNext(our_iterator, it).paren
                  pos == IteratorNext(our_iterator, it).pos
                  backward == InStr(qchar, BRACKS_CLOSE)
                  pushed == IF backward THEN InStr(paren, BRACKS_CLOSE)
                            ELSE InStr(paren, BRACKS_OPEN)
              IN /\ direction = IF backward THEN -1 ELSE 1
                 /\ IF pushed
                    THEN /\ stacked_paren' = Append(stacked_paren, <<paren, pos>>)
                         /\ pc' = "scan"
                    ELSE \/ /\ stacked_paren'
                                   = SubSeq(stacked_paren, 1, Len(stacked_paren) - 1)
                            /\ result'.status # MisMatch
                         \/ /\ stacked_paren' = stacked_paren
                            /\ result'.status = MisMatch
                            /\ pc' = "returned"]_vars

\* C18's case: a Backward scan from a closing bracket has pushed the closing
\* bracket it met on the start entry.
C18_Witness ==
    /\ pc = "scan"
    /\ direction = -1
    /\ InStr(qchar, BRACKS_CLOSE)
    /\ Len(stacked_paren) = 2
    /\ stacked_paren[1] = <<qchar, qpos>>
    /\ InStr(stacked_paren[2][1], BRACKS_CLOSE)
    /\ stacked_paren[2][2] < qpos
    /\ stacked_paren[2][2] >= 1

\* The text as the iterator of class cls sees it: for _ParenIterator a
\* bracket that is no ParenthesisToken (part of a string or comment, or in a
\* block without token list) counts as an ordinary character.
SeenText(cls) ==
    [i \in 1..Len(fulltext) |->
        IF /\ cls = "_ParenIterator"
           /\ InStr(fulltext[i], BRACKS)
           /\ ~IsBracketToken(i)
        THEN "x" ELSE fulltext[i]]

\* C19: a scan that returns Match has emptied its stack, and the bracket at
\* the corresponding position is the partner of the start character, of the
\* same family and with only balanced brackets between the two; in "(()" the
\* closing bracket matches the second "(" and the first "(" gets NoMatch.
C19_MatchIsPartner ==
    /\ (CallReturned /\ result.status = Match) =>
          /\ stacked_paren = <<>>
          /\ \E q \in 1..Len(fulltext) :
                /\ result.corresponding = At(q)
                /\ fulltext[q] = matchingBrackets(qchar)
                /\ IF InStr(qchar, BRACKS_OPEN)
                   THEN <<qpos, q>> \in BracketPairs(SeenText(our_iterator))
                   ELSE <<q, qpos>> \in BracketPairs(SeenText(our_iterator))
    /\ (/\ CallReturned
        /\ fulltext = <<"(", "(", ")">>
        /\ our_iterator = "_ParenIterator" => NoStringsOrComments) =>
          /\ qpos = 3 => result = MatchResult(Match, At(2), None)
          /\ qpos = 1 => result = MatchResult(NoMatch, None, None)

\* The k-th bracket the iterator yielded was a mismatch for the stack the
\* scan had built from the k - 1 brackets before it: an unstacking bracket
\* that is no partner of the stacking bracket last left open.
RECURSIVE StackAfter(_)
StackAfter(k) ==
    IF k = 0 THEN << <<qchar, qpos>> >>
    ELSE IF InStr(yielded[k][1], Stacking(direction))
    THEN Append(StackAfter(k - 1), yielded[k])
    ELSE SubSeq(StackAfter(k - 1), 1, Len(StackAfter(k - 1)) - 1)

WrongFamilyAt(k) ==
    /\ InStr(yielded[k][1], Unstacking(direction))
    /\ StackAfter(k - 1) # <<>>
    /\ matchingBrackets(StackAfter(k - 1)[Len(StackAfter(k - 1))][1])
           # yielded[k][1]

\* C20: the scan ends at the first unstacking bracket of the wrong family:
\* that bracket is the last one taken from the iterator, none before it was
\* of the wrong family, the result is MisMatch with its position, and no
\* later step takes another bracket; "(])" queried on its "(" gives MisMatch
\* although the ")" behind the "]" is the partner of the "(".
C20_MisMatchEndsScan ==
    [][/\ (pc \in {"scan", "returned"} /\ raised = "none") =>
              /\ \A k \in 1..(Len(yielded) - 1) : ~WrongFamilyAt(k)
              /\ (Len(yielded) > 0 /\ WrongFamilyAt(Len(yielded))) =>
                    /\ pc = "returned"
                    /\ result.status = MisMatch
                    /\ result.corresponding = At(yielded[Len(yielded)][2])
              /\ result.status = MisMatch =>
                    Len(yielded) > 0 /\ WrongFamilyAt(Len(yielded))
       /\ pc = "returned" => (yielded' = yielded /\ it' = it)
       /\ (/\ pc = "returned"
           /\ caller = "call"
           /\ fulltext = <<"(", "]", ")">>
           /\ qpos = 1
           /\ our_iterator = "_ParenIterator" => NoStringsOrComments) =>
              /\ result = MatchResult(MisMatch, At(2), At(1))
              /\ yielded = << <<"]", 2>> >>]_vars

\* C20's case: "(])" was queried on its "(" and the scan ended in MisMatch
\* at the "]", with the ")" left in the iterator.
C20_Witness ==
    /\ CallReturned
    /\ fulltext = <<"(", "]", ")">>
    /\ qpos = 1
    /\ result.status = MisMatch
    /\ Len(yielded) = 1

\* ------------------------------------------------- documents of many lines

\* The length of the longest document of lines.
MaxLineDoc == 5

\* Documents of lines: brackets of one family and block separators.
LineTexts(n) == UNION {[1..k -> {"(", ")", NewLine}] : k \in 0..n}

\* An editor with a parser on a document of short lines, any of which may
\* lack user data, and any bracket of which may lie in a string or comment.
InitLines ==
    \E text \in LineTexts(MaxLineDoc) :
        \E classified \in SUBSET BracketPositions(text) :
            \E has \in [1..BlockCount(text) -> BOOLEAN] :
                /\ InitOf(text, UserDataOf(text, classified, has), TRUE)
                /\ InitTabBar(TRUE)
                /\ InitCallLater
                /\ InitMainWindow({})

NextLines ==
    \/ \E p \in 1..Len(fulltext) : Call(p)
    \/ ScanStep
    \/ Return(FALSE)

SpecLines == InitLines /\ [][NextLines]_vars

\* The blocks strictly between blocks a and b.
BlocksBetween(a, b) == {c \in 1..BlockCount(fulltext) : (a < c /\ c < b) \/ (b < c /\ c < a)}

\* The positions of the bracket tokens of block b.
TokenPositions(b) == {q \in BracketPositions(fulltext) : BlockOf(fulltext, q) = b /\ IsBracketToken(q)}

\* C21: in the tokenized strategy the blocks without bracket tokens (an
\* empty list, or no token data) yield nothing and do not end the iteration:
\* what the iterator has yielded is the beginning of the sequence of all the
\* bracket tokens beyond the start, and all of it once the iterator is
\* exhausted; a yield in another block than the one before passes only
\* blocks without bracket tokens and is the first (Forward) or the last
\* (Backward) bracket token of its block.
C21_PassesEmptyLines ==
    (our_iterator = "_ParenIterator" /\ pc \in {"scan", "returned"}
        /\ raised = "none") =>
        /\ IsPrefix(yielded, BracketsBeyond("_ParenIterator", qpos, direction))
        /\ stops > 0 =>
              yielded = BracketsBeyond("_ParenIterator", qpos, direction)
        /\ \A k \in 1..Len(yielded) :
              LET from == BlockOf(fulltext, IF k = 1 THEN qpos ELSE yielded[k - 1][2])
                  to == BlockOf(fulltext, yielded[k][2])
              IN to # from =>
                    /\ \A c \in BlocksBetween(from, to) : TokenPositions(c) = {}
                    /\ \A q \in TokenPositions(to) :
                          IF direction = 1 THEN yielded[k][2] <= q
                          ELSE yielded[k][2] >= q

\* A Backward query that found its partner three lines up, across a line
\* without token data and a line whose token list is empty.
C21_Witness ==
    /\ CallReturned
    /\ our_iterator = "_ParenIterator"
    /\ direction = -1
    /\ result.status = Match
    /\ LET from == BlockOf(fulltext, qpos)
           to == BlockOf(fulltext, result.corresponding[1])
       IN /\ \E c \in BlocksBetween(from, to) : ~userData[c].has
          /\ \E c \in BlocksBetween(from, to) :
                userData[c].has /\ userData[c].tokens = <<>>

\* ------------------------------------------------ painting with a selection

\* The user extends the selection to p: the position moves, the anchor stays
\* (the textCursor() paintEvent copies may hold a selection).
SelectTo(p) ==
    /\ pc = "idle"
    /\ textCursor' = Cursor(p, textCursor.anchor)
    /\ UNCHANGED <<tabVars, callbackVars, windowVars>>
    /\ UNCHANGED <<docVars, parserOn, optionVars, pc, caller, queryVars,
                   paintVars>>

\* Any text of at most MaxLen characters, in an editor with a parser that
\* lexed every bracket as a token, or in an editor without parser.
InitSelection ==
    \E text \in Texts(MaxLen) :
        /\ \/ InitOf(text, FullyLexed(text), TRUE)
           \/ InitOf(text,
                     UserDataOf(text, {}, [b \in 1..BlockCount(text) |-> FALSE]),
                     FALSE)
        /\ InitTabBar(TRUE)
        /\ InitCallLater
        /\ InitMainWindow({})

NextSelection ==
    \/ \E p \in 0..Len(fulltext) : SetTextCursor(p)
    \/ \E p \in 0..Len(fulltext) : SelectTo(p)
    \/ PaintEvent
    \/ ScanStep
    \/ PaintFinish

\* The editor with a cursor that may hold a selection.
SpecSelection == InitSelection /\ [][NextSelection]_vars

\* C22: the steps of a paintEvent and of the query it issues leave the text,
\* the token lists, the parser, the two options and the editor's own text
\* cursor (position and anchor) as they were, and a query starts with a stack
\* and an iterator of its own: the stack holds at most the start bracket and
\* nothing has been yielded.
C22_Frame ==
    [][(PaintEvent \/ ScanStep \/ PaintFinish) =>
          /\ UNCHANGED <<fulltext, userData, parserOn>>
          /\ UNCHANGED <<highlightMatchingBracket, highlightMisMatchingBracket>>
          /\ textCursor'.position = textCursor.position
          /\ textCursor'.anchor = textCursor.anchor
          /\ (pc = "idle" /\ pc' # "idle") =>
                /\ stacked_paren' \in {<<>>, <<<<qchar', qpos'>>>>}
                /\ yielded' = <<>>]_vars

\* A paintEvent has come to its end with highlights while the editor's
\* cursor holds a selection and the queried bracket is the one to the right
\* of the insertion point: paintEvent cleared the selection of its cursor and
\* moved it.
C22_Witness ==
    /\ pc = "idle"
    /\ caller = "paint"
    /\ painted # {}
    /\ superPainted
    /\ textCursor.anchor # textCursor.position
    /\ qpos # textCursor.position

\* ------------------------------------------------- the bracket paintEvent queries

\* The insertion point is at the start of its line.
AtLineStart(c) == c = 0 \/ fulltext[c] = NewLine

\* A character follows the insertion point on its line.
RightExists(c) == c + 1 <= Len(fulltext) /\ fulltext[c + 1] # NewLine

\* The bracket at position q (the character left of a cursor at q) is there.
BracketAt(q) == q >= 1 /\ q <= Len(fulltext) /\ InStr(fulltext[q], BRACKS)

\* The query the insertion point c calls for: the bracket to its left, or
\* else the bracket to its right on the same line (which at the start of a
\* line is the first character of the line), or none.
ExpectedQuery(c) ==
    IF ~AtLineStart(c) /\ BracketAt(c)
    THEN [query |-> TRUE, char |-> fulltext[c], cursor |-> c]
    ELSE IF RightExists(c) /\ BracketAt(c + 1)
    THEN [query |-> TRUE, char |-> fulltext[c + 1], cursor |-> c + 1]
    ELSE [query |-> FALSE, char |-> "", cursor |-> c]

\* C23: with the matching option on, paintEvent queries the bracket left of
\* the insertion point whenever there is one, whatever is to its right;
\* otherwise the bracket to the right when there is one on the line, which
\* at the start of a line is the first character of the line; and it makes
\* no query otherwise.
C23_LeftBracketFirst ==
    [][(PaintEvent /\ highlightMatchingBracket) =>
          LET e == ExpectedQuery(textCursor.position)
          IN /\ e.query <=> pc' # "idle"
             /\ pc' # "idle" => (qchar' = e.char /\ qpos' = e.cursor)]_vars

\* An opening bracket lies somewhere before position p.
OpeningBefore(p) == \E q \in 1..(p - 1) : InStr(fulltext[q], BRACKS_OPEN)

\* C24: the positions of a Match or MisMatch result are positions of
\* brackets of the document on the scanned side of the start: corresponding
\* is after the start in a Forward query and before it (and at least 1) in
\* a Backward query, offending is between the start (inclusive) and
\* corresponding; and a closing bracket with no opening bracket before it
\* does not get Match.
C24_PositionsOnScannedSide ==
    /\ (CallReturned /\ raised = "none" /\ result.status \in {Match, MisMatch}) =>
          LET c == result.corresponding[1]
          IN /\ BracketAt(c)
             /\ IF direction = 1 THEN c > qpos /\ c <= Len(fulltext)
                ELSE c >= 1 /\ c < qpos
             /\ result.status = MisMatch =>
                   LET o == result.offending[1]
                   IN /\ BracketAt(o)
                      /\ IF direction = 1 THEN qpos <= o /\ o < c
                         ELSE c < o /\ o <= qpos
    /\ (CallReturned /\ InStr(qchar, BRACKS_CLOSE) /\ ~OpeningBefore(qpos)) =>
          result.status # Match

\* The for loop of _findMatchingBracket run to its return, from iterator
\* state i and stack `stack`: the _MatchResult returned.
RECURSIVE ScanFrom(_, _, _, _)
ScanFrom(cls, i, stack, dir) ==
    LET n == IteratorNext(cls, i)
    IN IF n.stop
       THEN NoMatchResult
       ELSE LET b == LoopBody(stack, dir, n.paren, n.pos)
            IN IF b.returned THEN b.result
               ELSE ScanFrom(cls, n.it, b.stack, dir)

\* _findMatchingBracket on the bracket at position q with iterator class
\* cls: the _MatchResult returned, NoResult when _ParenNotFound is raised.
QueryAt(cls, q) ==
    LET char == fulltext[q]
        dir == Direction(char)
        init == ParenIteratorInit(q, dir)
    IN IF cls = "_ParenIterator" /\ ~init.ok
       THEN NoResult
       ELSE ScanFrom(cls,
                     IF cls = "_ParenIterator" THEN init.it
                     ELSE PlainIteratorInit(q, dir),
                     InitialStack(<<>>, char, q), dir)

\* C25: when the query of the bracket at p returns Match with corresponding
\* position q, there is a bracket at q and its query, in the same document
\* with the same strategy, returns Match with corresponding position p.
C25_MatchSymmetric ==
    (CallReturned /\ raised = "none" /\ result.status = Match) =>
        LET q == result.corresponding[1]
        IN /\ BracketAt(q)
           /\ QueryAt(our_iterator, q) = MatchResult(Match, At(qpos), None)

\* C26: in a call of _findMatchingBracket(char, cursor) made by paintEvent,
\* char is the character of the document left of cursor, the one at
\* absolute index cursor.position() - 1.
C26_CharLeftOfCursor ==
    (caller = "paint" /\ pc \in {"scan", "returned"}) =>
        /\ qpos >= 1
        /\ qpos <= Len(fulltext)
        /\ qchar = fulltext[qpos]

\* The editor of InitSelection with its options set and reset, its insertion
\* point moved and its paintEvents.
SpecOptions == InitSelection /\ [][Next]_vars

\* C27: with the matching option off, a paintEvent makes no query and draws
\* no bracket highlight, whatever the document, the insertion point and the
\* mismatch option: it only runs super().paintEvent.
C27_DisabledPaintsNothing ==
    [][(PaintEvent /\ ~highlightMatchingBracket) =>
          /\ pc' = "idle"
          /\ painted' = {}
          /\ superPainted'
          /\ escaped' = "none"
          /\ UNCHANGED <<caller, callVars>>]_vars

\* What a paintEvent with the matching option off leaves when the mismatch
\* option is on and the insertion point is next to the bracket whose query
\* returned MisMatch in an earlier paintEvent: nothing is drawn.
C27_Witness ==
    /\ pc = "idle"
    /\ ~highlightMatchingBracket
    /\ highlightMisMatchingBracket
    /\ superPainted
    /\ painted = {}
    /\ caller = "paint"
    /\ result.status = MisMatch
    /\ ExpectedQuery(textCursor.position).query
    /\ ExpectedQuery(textCursor.position).cursor = qpos

\* ------------------------------------------- MainWindow: closeEvent, restart

\* The most closeEvents of one run of the model.
MaxCloses == 3

\* The tools that may be loaded.
Tools == {"tool1", "tool2"}

\* The steps of closeEvent after closeAll() has succeeded, in their order.
ShutdownSteps ==
    <<"saveConfig", "command_history.save", "stop_our_server", "terminateAll",
      "shell._context.close", "tool.cleanUp", "thread.stop",
      "super().closeEvent">>

\* if self._closeflag: (0, False and True are what they are, a time is true)
Truthy(flag) == flag \in {"time", "True"}

\* A closeEvent that leaves _closeflag as it is when closeAll() has failed.
CloseflagKept(flag) == flag

\* self._closeflag = False, after closeAll() has failed
CloseflagAfterFailure(flag) == "False"

\* restart() up to self.close(): self._closeflag = time.time()
Restart ==
    /\ mainPc = "idle"
    /\ ~inRestart
    /\ Len(closeEvents) < MaxCloses
    /\ closeflag' = "time"
    /\ inRestart' = TRUE
    /\ UNCHANGED <<mainPc, eventState, shutdown, cleanable, closeEvents>>
    /\ UNCHANGED <<editorVars, tabVars, callbackVars>>

\* closeEvent up to "Save settings": closed is what closeAll() returned. The
\* event comes from the user closing the window, or from restart()'s
\* self.close().
CloseEvent(closed) ==
    /\ mainPc = "idle"
    /\ Len(closeEvents) < MaxCloses
    /\ closeEvents' = Append(closeEvents, [ok |-> closed, restart |-> inRestart])
    /\ shutdown' = <<>>
    /\ IF ~closed
       THEN /\ closeflag' = CloseflagAfterFailure(closeflag)
            /\ eventState' = "ignored"
            /\ mainPc' = IF inRestart THEN "afterClose" ELSE "idle"
       ELSE /\ closeflag' = "True"
            /\ eventState' = "none"
            /\ mainPc' = "closing"
    /\ UNCHANGED <<inRestart, cleanable>>
    /\ UNCHANGED <<editorVars, tabVars, callbackVars>>

\* The next step of closeEvent after closeAll() has succeeded; the tools
\* without cleanUp are passed over, and super().closeEvent(event) accepts the
\* event and ends the handler.
ShutdownStep ==
    /\ mainPc = "closing"
    /\ LET step == ShutdownSteps[Len(shutdown) + 1]
       IN /\ shutdown' = Append(shutdown,
                                IF step = "tool.cleanUp"
                                THEN <<step, cleanable>> ELSE <<step>>)
          /\ IF step = "super().closeEvent"
             THEN /\ eventState' = "accepted"
                  /\ mainPc' = IF inRestart THEN "afterClose" ELSE "closed"
             ELSE UNCHANGED <<eventState, mainPc>>
    /\ UNCHANGED <<closeflag, inRestart, cleanable, closeEvents>>
    /\ UNCHANGED <<editorVars, tabVars, callbackVars>>

\* restart() after self.close(): if self._closeflag: ... os.execv(...)
RestartAfterClose ==
    /\ mainPc = "afterClose"
    /\ inRestart
    /\ mainPc' = IF Truthy(closeflag) THEN "replaced" ELSE "idle"
    /\ inRestart' = FALSE
    /\ UNCHANGED <<closeflag, eventState, shutdown, cleanable, closeEvents>>
    /\ UNCHANGED <<editorVars, tabVars, callbackVars>>

InitWindow ==
    /\ InitOf(<<>>, UserDataOf(<<>>, {}, [b \in 1..1 |-> FALSE]), FALSE)
    /\ InitTabBar(TRUE)
    /\ InitCallLater
    /\ \E tools \in SUBSET Tools : InitMainWindow(tools)

NextWindow ==
    \/ Restart
    \/ \E closed \in BOOLEAN : CloseEvent(closed)
    \/ ShutdownStep
    \/ RestartAfterClose

SpecWindow == InitWindow /\ [][NextWindow]_vars

\* The last closeEvent.
LastClose == closeEvents[Len(closeEvents)]

\* The names of the steps run by the current or last closeEvent.
StepsRun == [k \in 1..Len(shutdown) |-> shutdown[k][1]]

\* C28: after a closeEvent in which closeAll() failed, and until the next
\* closeEvent, the event is ignored, no shutdown step has run and the
\* process is not replaced, also when restart() made the close; the process
\* is replaced only by a restart() whose closeEvent had closeAll() succeed,
\* was accepted and ran all the shutdown steps.
C28_FailedCloseStopsShutdown ==
    /\ (closeEvents # <<>> /\ ~LastClose.ok) =>
          /\ eventState = "ignored"
          /\ shutdown = <<>>
          /\ mainPc \in {"idle", "afterClose"}
    /\ mainPc = "replaced" =>
          /\ closeEvents # <<>>
          /\ LastClose.ok
          /\ LastClose.restart
          /\ eventState = "accepted"
          /\ StepsRun = ShutdownSteps

\* restart() has returned without replacing the process: its closeEvent,
\* which came after an earlier close, had closeAll() fail.
C28_Witness ==
    /\ mainPc = "idle"
    /\ ~inRestart
    /\ Len(closeEvents) >= 2
    /\ LastClose.restart
    /\ ~LastClose.ok
    /\ closeflag = "False"
    /\ shutdown = <<>>

\* ------------------------------------------------- one pass of the alignment

\* The tab bar right after a call of alignTabs(): any tabs, shown with the
\* texts of the width the earlier passes left, the flag reset and the timer
\* started.
InitAlign ==
    /\ InitOf(<<>>, UserDataOf(<<>>, {}, [b \in 1..1 |-> FALSE]), FALSE)
    /\ InitCallLater
    /\ InitMainWindow({})
    /\ \E n \in 0..MaxTabs :
           \E names \in [1..n -> TabNames] :
               \E w \in MIN_NAME_WIDTH..MAX_NAME_WIDTH :
                   \E prevent \in BOOLEAN :
                       /\ tabs = SetMaxWidthOfAllItems(
                                     [k \in 1..n |->
                                         [name |-> names[k], text |-> names[k]]],
                                     w, prevent).tabs
                       /\ alignWidth = w
                       /\ alignWidthIsReducing = FALSE
                       /\ alignTimerActive = TRUE
                       /\ preventEqualTexts = prevent

\* No external event: only the timer's slot runs.
NextAlign ==
    \E visible \in BOOLEAN :
        \E margin \in {"negative", "large", "good"} :
            AlignRecursive(visible, margin)

\* The event loop delivers the timeout of a started single-shot timer.
SpecAlign == InitAlign /\ [][NextAlign]_vars /\ WF_vars(NextAlign)

\* C29: in a pass of the alignment without external event the width stays
\* within MIN_NAME_WIDTH..MAX_NAME_WIDTH, a step that reduces the width sets
\* the reducing flag and no step increases the width once the flag is set,
\* and the timer is in the end not started again.
C29_AlignmentSettles ==
    /\ [](alignWidth \in MIN_NAME_WIDTH..MAX_NAME_WIDTH)
    /\ [][/\ alignWidth' < alignWidth => alignWidthIsReducing'
          /\ alignWidthIsReducing =>
                (alignWidth' <= alignWidth /\ alignWidthIsReducing')]_vars
    /\ <>[](~alignTimerActive)

\* The pass has ended after it grew the width and then reduced it: the
\* timer is stopped, the flag is set and the width is above the minimum.
C29_Witness ==
    /\ ~alignTimerActive
    /\ alignWidthIsReducing
    /\ alignWidth > MIN_NAME_WIDTH
    /\ alignWidth < MAX_NAME_WIDTH
    /\ tabs # <<>>

====
